---- MODULE Spec2Model ----
(***************************************************************************)
(* The Listing View of the GitHub dashboard (src/src/app/page.tsx,         *)
(* HomePage): component state, the page-load and search requests in        *)
(* flight, the debounce timer of the search effect and the viewport        *)
(* watcher of the last rendered item.  A user summary is modelled by its   *)
(* identifier; a query is a sequence of characters.  Every action is one   *)
(* handler run on the UI thread.  The handler of a click or an input       *)
(* change is followed at once by the commit of the render it causes        *)
(* (effects and callback refs); the updates made by the continuation of a  *)
(* fetch, by a timeout or by the observer callback are rendered in a       *)
(* later task (Render) and the effects of that render run in a task after  *)
(* it (Effects); until then the timeout, the watcher and the buttons of    *)
(* the last committed render still act.  A setter given the value its     *)
(* hook holds queues nothing, and an updater given to a setter is run at   *)
(* once, while no update is marked on the component (after mount and after *)
(* a render that changed nothing); otherwise both wait for the render.     *)
(* The Detail View (src/src/app/users/[id]/page.tsx, UserPage) is one      *)
(* render pass per navigation: the profile request, the repository         *)
(* request, then the page computed from the two bodies.                    *)
(***************************************************************************)
EXTENDS Integers, Sequences, FiniteSets, TLC

\* ------------------------------------------------------------------ bounds
\* the identifiers the sources answer with
NumIds == 2
\* the longest page answer
MaxPageLen == 1
\* the last page the watcher asks for
MaxPage == 2
\* the requests (page loads and searches together) awaiting a response
MaxInFlight == 2
\* the longest items sequence of a search answer
MaxItems == 1
\* the sources with longer pages: their identifiers, their longest page and
\* the number of their pages
NumLongIds == 3
LongPageLen == 2
LongPages == 2

\* ------------------------------------------------------- program constants
\* the delay of the debounce timeout, in milliseconds
DebounceDelay == 500

\* --------------------------------------------------------------- universes
Ids == 1..NumIds
\* no timeout is pending
NoTimer == [pending |-> FALSE, delay |-> 0, query |-> <<>>, users |-> <<>>,
            edited |-> FALSE]
\* observer.current is undefined
NoObserver == [created |-> FALSE, hasMore |-> FALSE, page |-> 0,
               observing |-> FALSE]
\* no element carries the ref
NoKey == <<>>
NoError == "null"
Space == " "
\* the values the search input takes: empty, whitespace only, a word
Queries == {<<>>, <<Space>>, <<"a">>}
\* the ways a request fails: a non-success status, a rejected fetch
Failures == {"status", "transport"}

RECURSIVE NoDup(_)
NoDup(s) ==
    IF Len(s) <= 1 THEN TRUE
    ELSE /\ \A j \in 2..Len(s) : s[j] # s[1]
         /\ NoDup(Tail(s))

\* the duplicate-free sequences of identifiers of length at most n
UserSeqs(n) ==
    UNION {{s \in [1..k -> Ids] : NoDup(s)} : k \in 0..n}

\* what the listing source answers to one page request
PageData == UserSeqs(MaxPageLen)
\* what a source with longer pages answers to one page request: up to
\* LongPageLen users, in any order
LongPageData ==
    UNION {{s \in [1..k -> 1..NumLongIds] : NoDup(s)} : k \in 0..LongPageLen}
\* the body of a successful search response, with or without an items field
SearchBodies ==
    {[hasItems |-> TRUE, items |-> s] : s \in UserSeqs(MaxItems)}
        \cup {[hasItems |-> FALSE, items |-> <<>>]}

Range(s) == {s[j] : j \in 1..Len(s)}

\* String.prototype.trim on a sequence of characters
RECURSIVE TrimStart(_)
TrimStart(q) ==
    IF q # <<>> /\ Head(q) = Space THEN TrimStart(Tail(q)) ELSE q

RECURSIVE TrimEnd(_)
TrimEnd(q) ==
    IF q # <<>> /\ q[Len(q)] = Space THEN TrimEnd(SubSeq(q, 1, Len(q) - 1)) ELSE q

Trim(q) == TrimEnd(TrimStart(q))

\* the message the catch blocks store for a failure
PageErrorMessage(f) ==
    IF f = "status" THEN "HTTP error! status: 403" ELSE "Failed to fetch"

SearchErrorMessage(f) ==
    IF f = "status" THEN "HTTP error! status: 403" ELSE "Failed to fetch"

\* ------------------------------------------------------------------- state
VARIABLES
    users,          \* accumulated listing
    filteredUsers,  \* displayed list
    loading,
    hasMore,
    page,
    error,
    searchQuery,
    isSearching,
    searchResults,
    isInitialized,
    observer,       \* observer.current: the watcher created last
    connected,      \* the watchers that observe an element
    pageReqs,       \* fetchUsers calls awaiting their response, in issue order
    searchReqs,     \* searchUsers calls awaiting their response, in issue order
    timer,          \* the pending debounce timeout
    searched,       \* history: a search was issued since the query last changed
    emptied,        \* history: the lowest page answered empty, 0 when none was
    source,         \* the user listing source behind fetchUsers
    view,           \* the last committed render: what closures and buttons see
    pending,        \* the render React has scheduled and not yet committed
    params,         \* Detail View: the handle of the navigation (params.id)
    phase,          \* Detail View: where UserPage stands in its render pass
    userData,       \* Detail View: the body of the profile response
    reposData,      \* Detail View: the body of the repository response
    rendered        \* Detail View: what UserPage returned

detailVars == <<params, phase, userData, reposData, rendered>>

vars == <<users, filteredUsers, loading, hasMore, page, error, searchQuery,
          isSearching, searchResults, isInitialized, observer, connected,
          pageReqs, searchReqs, timer, searched, emptied, source, view,
          pending, params, phase, userData, reposData, rendered>>

\* ---------------------------------------------------- the listing source
FixedPages == 3

\* a source whose answers are not tied to one another (the listing changes
\* between requests)
Live == [fixed |-> FALSE, pages |-> <<>>]

\* the sources with fixed page contents: FixedPages pages of one user each,
\* holding every user between them, the first one user 1, in the ascending
\* order of identifiers in which users?since= lists them (page n + 1 starts
\* at or after the user page n starts at), and empty pages after them
FixedSources ==
    {[fixed |-> TRUE, pages |-> ps] :
        ps \in {p \in [1..FixedPages -> {<<u>> : u \in Ids}] :
                  /\ p[1] = <<1>>
                  /\ \A u \in Ids : \E n \in 1..FixedPages : p[n] = <<u>>
                  /\ \A n \in 1..(FixedPages - 1) : p[n][1] <= p[n + 1][1]}}

\* the sources with fixed page contents whose pages hold up to LongPageLen
\* users and may overlap: LongPages non-empty pages, the first one listing
\* its users as 1, 2, ... (users are named in the order it lists them), the
\* later ones in any order, and empty pages after them
LongSources ==
    {[fixed |-> TRUE, pages |-> ps] :
        ps \in {p \in [1..LongPages -> LongPageData \ {<<>>}] :
                  \A j \in 1..Len(p[1]) : p[1][j] = j}}

\* the content of page n of the fixed source src
SourcePage(src, n) == IF n <= Len(src.pages) THEN src.pages[n] ELSE <<>>

\* ------------------------------------------------------------ the requests
\* a request in flight carries, besides its argument, whether a request issued
\* after it has already resolved and written the state the request writes (for
\* a search: or the query has been cleared)
PageReq(n) == [pageNum |-> n, superseded |-> FALSE]
SearchReq(q) == [query |-> q, superseded |-> FALSE]

\* the requests left when the i-th one resolves; the older ones are superseded
\* when its response is written to the state
ResolveAt(reqs, i, written) ==
    [j \in 1..(Len(reqs) - 1) |->
        IF j < i THEN [reqs[j] EXCEPT !.superseded = @ \/ written]
        ELSE reqs[j + 1]]

SupersedeAll(reqs) ==
    [j \in 1..Len(reqs) |-> [reqs[j] EXCEPT !.superseded = TRUE]]

\* ------------------------------------------------- the watcher (lastUserRef)
\* the key of the element that carries ref={lastUserRef}: the last item of the
\* displayed list, rendered only past the initial-load gate and while the
\* query is the empty string
RefKey(fu, q, init) ==
    IF init /\ fu # <<>> /\ q = <<>> THEN <<fu[Len(fu)], Len(fu)>> ELSE NoKey

\* what one render fixes for the watcher: the element with the ref and the
\* values lastUserRef closes over (its dependency list)
Props(l, h, p, q, fu, init) ==
    [key |-> RefKey(fu, q, init), loading |-> l, hasMore |-> h, page |-> p,
     query |-> q]

RefDeps(c) == <<c.loading, c.hasMore, c.page, c.query>>

Watcher(c) == [hasMore |-> c.hasMore, page |-> c.page]

RECURSIVE RemoveOne(_, _)
RemoveOne(s, w) ==
    IF s = <<>> THEN s
    ELSE IF Head(s) = w THEN Tail(s)
    ELSE <<Head(s)>> \o RemoveOne(Tail(s), w)

\* Disconnect leaving the watcher connected
DisconnectNothing(st) == st.connected

\* observer.current.disconnect()
Disconnect(st) ==
    IF st.observer.observing
    THEN RemoveOne(st.connected, Watcher(st.observer))
    ELSE st.connected

\* lastUserRef(node) of the render with closure c; hasNode is node # null
LastUserRef(c, hasNode, st) ==
    IF c.loading \/ Trim(c.query) # <<>> THEN st
    ELSE LET rest == IF st.observer.created THEN Disconnect(st) ELSE st.connected
         IN [observer |-> [created |-> TRUE, hasMore |-> c.hasMore,
                           page |-> c.page, observing |-> hasNode],
             connected |-> IF hasNode THEN Append(rest, Watcher(c)) ELSE rest]

\* the commit of a render: the old callback ref is called with null when its
\* element goes or the callback changed, then the new one with the element
CommitRefs(old, new, st) ==
    LET changed == new.key # old.key \/ RefDeps(new) # RefDeps(old)
        detached == IF old.key # NoKey /\ changed
                    THEN LastUserRef(old, FALSE, st) ELSE st
    IN IF new.key # NoKey /\ changed
       THEN LastUserRef(new, TRUE, detached) ELSE detached

\* the debounce effect: its cleanup clears the pending timeout and a new one
\* is set whenever searchQuery or users (hence searchUsers) changed; edited
\* is history carried from the handler: the input's onChange is among the
\* reasons the pending timeout exists
DebounceEffect(t, q0, q1, us1, usersChanged) ==
    IF q1 # q0 \/ usersChanged
    THEN [pending |-> TRUE, delay |-> DebounceDelay, query |-> q1, users |-> us1,
          edited |-> t.edited]
    ELSE t

\* no render is scheduled, no effect is due and no update is marked on the
\* component; lanes: an update is queued, or was when the last render that
\* changed the state began (React clears the mark of the other buffer of the
\* component only in a render that changes nothing); stored: a handler has
\* stored an array created since the last render; kept: a setter was given
\* the value its hook held while nothing was marked, and React keeps that
\* update, unmarked and unscheduled, in the queue of the hook until a
\* scheduled render takes it
NoPending == [render |-> FALSE, lanes |-> FALSE, stored |-> FALSE,
              users |-> FALSE, merged |-> FALSE, effects |-> FALSE,
              kept |-> FALSE]

\* what a committed render fixes: the props of the watcher, the users array
\* its closures (clearSearch, the debounce effect) hold, and what decides
\* which buttons are rendered
View(l, h, p, q, fu, init, us, err, srch) ==
    [props |-> Props(l, h, p, q, fu, init), users |-> us, error |-> err,
     isInitialized |-> init, isSearching |-> srch]

\* the render of the state v differs from the committed one: a hook holds
\* another value than it did (an array created since is another value)
Changed(stored, v) == stored \/ v # view

\* the timeout once the debounce effect of the last committed render, when it
\* is still due, has run: it replaces the timeout t by one that holds the
\* query and the users of that render
EffectsRun(t) ==
    IF pending.effects
    THEN [pending |-> TRUE, delay |-> DebounceDelay, query |-> view.props.query,
          users |-> view.users, edited |-> t.edited]
    ELSE t

\* setFilteredUsers(v) called by a handler: while an updater of setUsers
\* that React has queued without running it waits for the render, the
\* setFilteredUsers(newUsers) inside it runs at that render, after v was
\* queued, and is what the displayed list becomes
SetFilteredUsers(v) ==
    filteredUsers' = IF pending.merged THEN filteredUsers ELSE v

\* the render that follows a click or an input change, in the step of the
\* handler: the effects still due are run, the render is committed with the
\* state the handlers have left and its own effects are run; t is the
\* timeout as the handler leaves it, stored whether it stored an array it
\* created, usersChanged whether it stored a new users array; a render that
\* changes nothing clears the marks of the component; with no render
\* scheduled, this render passes over an update React has kept, which marks
\* the component and leaves a render scheduled
Commit(t, stored, usersChanged) ==
    /\ view' = View(loading', hasMore', page', searchQuery', filteredUsers',
                    isInitialized', users', error', isSearching')
    /\ LET st == CommitRefs(view.props, view'.props,
                            [observer |-> observer, connected |-> connected])
       IN /\ observer' = st.observer
          /\ connected' = st.connected
    /\ timer' = DebounceEffect(t, view.props.query, searchQuery', users',
                               usersChanged \/ pending.users \/ pending.effects)
    /\ LET passed == pending.kept /\ ~pending.render
       IN pending' = [NoPending EXCEPT
                         !.render = passed,
                         !.lanes = passed
                                   \/ Changed(stored \/ pending.stored, view')]

\* the values of the hooks that hold no array
Scalars(l, h, p, err, q, srch, init) == <<l, h, p, err, q, srch, init>>

\* the end of a handler that runs outside a click or an input change: with
\* no update marked on the component, a setter given the value its hook holds
\* queues nothing, and a handler whose setters all are schedules no render
\* (React keeps their updates);
\* otherwise React schedules the render, and nothing of the last committed
\* render changes until Render; t is the timeout as the handler leaves it,
\* stored whether it stored an array it created, usersChanged whether it
\* stored a new users array, merged whether it did so with an updater that
\* React queued without running it
Defer(t, stored, usersChanged, merged) ==
    /\ LET queued ==
               \/ pending.lanes
               \/ stored
               \/ Scalars(loading', hasMore', page', error', searchQuery',
                          isSearching', isInitialized')
                     # Scalars(loading, hasMore, page, error, searchQuery,
                               isSearching, isInitialized)
       IN pending' = [pending EXCEPT !.render = @ \/ queued,
                                     !.lanes = queued,
                                     !.stored = @ \/ stored,
                                     !.users = @ \/ usersChanged,
                                     !.merged = @ \/ merged,
                                     !.kept = @ \/ ~queued]
    /\ timer' = t
    /\ UNCHANGED <<view, observer, connected>>

\* ---------------------------------------------------------- the Detail View
NumRepoIds == 3
MaxRepos == 2

\* a repository summary is modelled by its identifier
RepoIds == 1..NumRepoIds

Handles == {"octocat", "nobody"}

\* JSON null
JsNull == "null"

\* the optional display name of a profile
ProfileNames == {JsNull, "The Octocat"}

\* the object GitHub answers with under a non-success status
ApiErrors == {[kind |-> "error", message |-> m] :
                 m \in {"Not Found", "API rate limit exceeded"}}

NullBody == [kind |-> "null"]

\* what response.json() can resolve to for the profile request
UserBodies ==
    {[kind |-> "profile", login |-> h, name |-> n] :
        h \in Handles, n \in ProfileNames} \cup ApiErrors \cup {NullBody}

RepoSeqs == UNION {{s \in [1..k -> RepoIds] : NoDup(s)} : k \in 0..MaxRepos}

\* what response.json() can resolve to for the repository request
ReposBodies ==
    {[kind |-> "array", items |-> s] : s \in RepoSeqs} \cup ApiErrors
    \cup {NullBody}

\* before navigation, and while a request is awaited
NoParams == ""
NoData == [kind |-> "none"]
NoPage == [kind |-> "none"]

\* UserPage rejected: the navigation ends in a rendering fault
Fault == [kind |-> "fault"]

\* userData.name || "No Name"; on an error object name is undefined
ProfileName(u) ==
    IF u.kind = "profile" /\ u.name # JsNull THEN u.name ELSE "No Name"

\* @{userData.login}; on an error object login is undefined, rendered as
\* nothing
ProfileLogin(u) == IF u.kind = "profile" THEN u.login ELSE ""

\* reposData && reposData.length > 0: null is falsy, an object that is not
\* an array has no length and undefined > 0 is false
HasRepos(r) == r.kind = "array" /\ Len(r.items) > 0

\* RepoSection listing the repositories last to first
RepoSectionReversed(r) ==
    IF HasRepos(r)
    THEN [state |-> "list",
          entries |-> [j \in 1..Len(r.items) |->
                          [key |-> r.items[Len(r.items) + 1 - j]]]]
    ELSE [state |-> "none", entries |-> <<>>]

\* the repository section: reposData.map gives one card per repository, keyed
\* by its id, or the "No Repositories Found" block
RepoSection(r) ==
    IF HasRepos(r)
    THEN [state |-> "list",
          entries |-> [j \in 1..Len(r.items) |-> [key |-> r.items[j]]]]
    ELSE [state |-> "none", entries |-> <<>>]

\* the page UserPage returns
Page(u, r) ==
    [kind |-> "page", name |-> ProfileName(u), login |-> ProfileLogin(u),
     repos |-> RepoSection(r)]

\* what the render can end in: reading a property of null throws
\* (userData.avatar_url, reposData.length of the "total" badge); with an
\* error object for the profile the avatar component and the link (outside
\* these sources) are given no src and no href, and either render or throw
Renderings(u, r) ==
    IF u.kind = "null" \/ r.kind = "null" THEN {Fault}
    ELSE IF u.kind = "profile" THEN {Page(u, r)}
    ELSE {Page(u, r), Fault}

\* -------------------------------------------------------------------- Init
\* the state after mount: the first render, then the two effects have run
\* (fetchUsers(1) is awaiting its response, its setLoading(true) and
\* setError(null) gave the values held; the debounce timeout is set)
Mounted ==
    /\ users = <<>>
    /\ filteredUsers = <<>>
    /\ loading = TRUE
    /\ hasMore = TRUE
    /\ page = 1
    /\ error = NoError
    /\ searchQuery = <<>>
    /\ isSearching = FALSE
    /\ searchResults = <<>>
    /\ isInitialized = FALSE
    /\ observer = NoObserver
    /\ connected = <<>>
    /\ pageReqs = <<PageReq(1)>>
    /\ searchReqs = <<>>
    /\ timer = [pending |-> TRUE, delay |-> DebounceDelay, query |-> <<>>,
                users |-> <<>>, edited |-> FALSE]
    /\ searched = FALSE
    /\ emptied = 0
    /\ view = View(TRUE, TRUE, 1, <<>>, <<>>, FALSE, <<>>, NoError, FALSE)
    /\ pending = [NoPending EXCEPT !.kept = TRUE]
    /\ params = NoParams
    /\ phase = "idle"
    /\ userData = NoData
    /\ reposData = NoData
    /\ rendered = NoPage

\* the views over a source whose answers are not tied to one another
Init == Mounted /\ source = Live

\* the views over a source with fixed page contents
FixedInit == Mounted /\ source \in FixedSources

\* the views over a source with longer, overlapping pages
LongInit == Mounted /\ source \in LongSources

\* ------------------------------------------------------------- fetchUsers
\* fetchUsers(pageNum) up to the await of fetch
FetchUsersStart(pageNum) ==
    /\ Len(pageReqs) + Len(searchReqs) < MaxInFlight
    /\ pageNum <= MaxPage \/ source.fixed
    /\ loading' = IF pageNum = 1 THEN TRUE ELSE loading
    /\ error' = NoError
    /\ pageReqs' = Append(pageReqs, PageReq(pageNum))

\* MergePage without the filter on existingIds
MergePageUnfiltered(prevUsers, data) == prevUsers \o data

\* MergePage putting the new entries in front of the listing
MergePagePrepending(prevUsers, data) ==
    SelectSeq(data, LAMBDA u : u \notin Range(prevUsers)) \o prevUsers

\* MergePage replacing the listing by the new page
MergePageReplacing(prevUsers, data) == data

\* the updater of setUsers for a later page
MergePage(prevUsers, data) ==
    LET existingIds == Range(prevUsers)
        uniqueNewUsers == SelectSeq(data, LAMBDA u : u \notin existingIds)
    IN prevUsers \o uniqueNewUsers

\* FetchUsersFail with a catch block that also resets the pagination
FetchUsersFailResetting(i, f) ==
    /\ i \in 1..Len(pageReqs)
    /\ error' = PageErrorMessage(f)
    /\ loading' = FALSE
    /\ page' = 1
    /\ hasMore' = TRUE
    /\ pageReqs' = ResolveAt(pageReqs, i, FALSE)
    /\ UNCHANGED <<users, filteredUsers, searchQuery, isSearching,
                   searchResults, isInitialized, searchReqs>>
    /\ UNCHANGED searched
    /\ UNCHANGED emptied
    /\ Defer(timer, FALSE, FALSE, FALSE)
    /\ UNCHANGED source
    /\ UNCHANGED detailVars

\* the response of the i-th request is a failure: catch, finally
FetchUsersFail(i, f) ==
    /\ i \in 1..Len(pageReqs)
    /\ error' = PageErrorMessage(f)
    /\ loading' = FALSE
    /\ pageReqs' = ResolveAt(pageReqs, i, FALSE)
    /\ UNCHANGED <<users, filteredUsers, hasMore, page, searchQuery,
                   isSearching, searchResults, isInitialized, searchReqs>>
    /\ UNCHANGED searched
    /\ UNCHANGED emptied
    /\ Defer(timer, FALSE, FALSE, FALSE)
    /\ UNCHANGED source
    /\ UNCHANGED detailVars

\* the response of the i-th request is an empty sequence
FetchUsersEmpty(i) ==
    /\ i \in 1..Len(pageReqs)
    /\ source.fixed => SourcePage(source, pageReqs[i].pageNum) = <<>>
    /\ hasMore' = FALSE
    /\ loading' = FALSE
    /\ pageReqs' = ResolveAt(pageReqs, i, FALSE)
    /\ UNCHANGED <<users, filteredUsers, page, error, searchQuery,
                   isSearching, searchResults, isInitialized, searchReqs>>
    /\ UNCHANGED searched
    /\ emptied' = IF emptied = 0 \/ pageReqs[i].pageNum < emptied
                  THEN pageReqs[i].pageNum ELSE emptied
    /\ Defer(timer, FALSE, FALSE, FALSE)
    /\ UNCHANGED source
    /\ UNCHANGED detailVars

\* the response of the i-th request is the non-empty sequence data; for a
\* later page React runs the updater inside setUsers when no update is marked
\* on the component (setFilteredUsers(newUsers) is then queued before what
\* later handlers store), and at the render otherwise
FetchUsersData(i, data) ==
    /\ i \in 1..Len(pageReqs)
    /\ data # <<>>
    /\ source.fixed => data = SourcePage(source, pageReqs[i].pageNum)
    /\ LET pageNum == pageReqs[i].pageNum
           newUsers == IF pageNum = 1 THEN data ELSE MergePage(users, data)
       IN /\ users' = newUsers
          /\ IF pageNum = 1 THEN SetFilteredUsers(data)
             ELSE filteredUsers' = newUsers
          /\ isInitialized' = IF pageNum = 1 THEN TRUE ELSE isInitialized
          /\ page' = pageNum
    /\ loading' = FALSE
    /\ pageReqs' = ResolveAt(pageReqs, i, TRUE)
    /\ UNCHANGED <<hasMore, error, searchQuery, isSearching, searchResults,
                   searchReqs>>
    /\ UNCHANGED searched
    /\ UNCHANGED emptied
    /\ Defer(timer, TRUE, TRUE, pageReqs[i].pageNum > 1 /\ pending.lanes)
    /\ UNCHANGED source
    /\ UNCHANGED detailVars

\* the watcher w reports its element visible
Intersecting(w) ==
    /\ w.hasMore
    /\ FetchUsersStart(w.page + 1)

WatcherVisible ==
    /\ \E k \in 1..Len(connected) : Intersecting(connected[k])
    /\ UNCHANGED <<users, filteredUsers, hasMore, page, searchQuery,
                   isSearching, searchResults, isInitialized, searchReqs>>
    /\ UNCHANGED searched
    /\ UNCHANGED emptied
    /\ Defer(timer, FALSE, FALSE, FALSE)
    /\ UNCHANGED source
    /\ UNCHANGED detailVars

\* RetryFetch resuming at the page after the current one
RetryFetchResuming ==
    /\ view.isInitialized
    /\ view.error # NoError
    /\ FetchUsersStart(page + 1)
    /\ UNCHANGED <<users, filteredUsers, hasMore, page, searchQuery,
                   isSearching, searchResults, isInitialized, searchReqs>>
    /\ UNCHANGED searched
    /\ UNCHANGED emptied
    /\ Commit(timer, FALSE, FALSE)
    /\ UNCHANGED source
    /\ UNCHANGED detailVars

\* the "Try Again" button of the error banner
RetryFetch ==
    /\ view.isInitialized
    /\ view.error # NoError
    /\ FetchUsersStart(1)
    /\ UNCHANGED <<users, filteredUsers, hasMore, page, searchQuery,
                   isSearching, searchResults, isInitialized, searchReqs>>
    /\ UNCHANGED searched
    /\ UNCHANGED emptied
    /\ Commit(timer, FALSE, FALSE)
    /\ UNCHANGED source
    /\ UNCHANGED detailVars

\* ------------------------------------------------------------ searchUsers
\* the search input's onChange
EditQuery(q) ==
    /\ view.isInitialized
    /\ q # searchQuery
    /\ searchQuery' = q
    /\ UNCHANGED <<users, filteredUsers, loading, hasMore, page, error,
                   isSearching, searchResults, isInitialized, pageReqs,
                   searchReqs>>
    /\ searched' = FALSE
    /\ UNCHANGED emptied
    /\ Commit([timer EXCEPT !.edited = TRUE], FALSE, FALSE)
    /\ UNCHANGED source
    /\ UNCHANGED detailVars

\* the clear buttons, rendered while searchQuery is not the empty string
ClearSearch ==
    /\ view.isInitialized
    /\ view.props.query # <<>>
    /\ searchQuery' = <<>>
    /\ isSearching' = FALSE
    /\ searchResults' = <<>>
    /\ SetFilteredUsers(view.users)
    /\ error' = NoError
    /\ searchReqs' = SupersedeAll(searchReqs)
    /\ UNCHANGED <<users, loading, hasMore, page, isInitialized, pageReqs>>
    /\ searched' = FALSE
    /\ UNCHANGED emptied
    /\ Commit([timer EXCEPT !.edited = FALSE], TRUE, FALSE)
    /\ UNCHANGED source
    /\ UNCHANGED detailVars

\* the delay has passed with the timeout still pending, and its query trims
\* to nothing
TimerFireEmpty ==
    /\ timer.pending
    /\ Trim(timer.query) = <<>>
    /\ isSearching' = FALSE
    /\ searchResults' = <<>>
    /\ SetFilteredUsers(timer.users)
    /\ searchReqs' = SupersedeAll(searchReqs)
    /\ UNCHANGED <<users, loading, hasMore, page, error, searchQuery,
                   isInitialized, pageReqs>>
    /\ UNCHANGED searched
    /\ UNCHANGED emptied
    /\ Defer(NoTimer, TRUE, FALSE, FALSE)
    /\ UNCHANGED source
    /\ UNCHANGED detailVars

\* the delay has passed with the timeout still pending, and it has a query:
\* searchUsers(query) up to the await of fetch
TimerFireSearch ==
    /\ timer.pending
    /\ Trim(timer.query) # <<>>
    /\ Len(pageReqs) + Len(searchReqs) < MaxInFlight
    /\ isSearching' = TRUE
    /\ error' = NoError
    /\ searchReqs' = Append(searchReqs, SearchReq(timer.query))
    /\ UNCHANGED <<users, filteredUsers, loading, hasMore, page, searchQuery,
                   searchResults, isInitialized, pageReqs>>
    /\ searched' = TRUE
    /\ UNCHANGED emptied
    /\ Defer(NoTimer, FALSE, FALSE, FALSE)
    /\ UNCHANGED source
    /\ UNCHANGED detailVars

\* the render React scheduled: the effects still due are run, then the state
\* the handlers have left is rendered and committed (callback refs); the
\* debounce effect of this render is due when a new users array was stored;
\* a render that changes nothing commits nothing and clears the marks of the
\* component
Render ==
    /\ pending.render
    /\ UNCHANGED <<users, filteredUsers, loading, hasMore, page, error,
                   searchQuery, isSearching, searchResults, isInitialized,
                   pageReqs, searchReqs>>
    /\ UNCHANGED searched
    /\ UNCHANGED emptied
    /\ view' = View(loading, hasMore, page, searchQuery, filteredUsers,
                    isInitialized, users, error, isSearching)
    /\ LET st == CommitRefs(view.props, view'.props,
                            [observer |-> observer, connected |-> connected])
       IN /\ observer' = st.observer
          /\ connected' = st.connected
    /\ timer' = EffectsRun(timer)
    /\ pending' = [NoPending EXCEPT
                       !.lanes = Changed(pending.stored, view'),
                       !.effects = pending.users]
    /\ UNCHANGED source
    /\ UNCHANGED detailVars

\* the passive effects of the last committed render, run in a task of their
\* own: the debounce effect clears the timeout and sets a new one
Effects ==
    /\ pending.effects
    /\ timer' = EffectsRun(timer)
    /\ pending' = [pending EXCEPT !.effects = FALSE]
    /\ UNCHANGED <<users, filteredUsers, loading, hasMore, page, error,
                   searchQuery, isSearching, searchResults, isInitialized,
                   pageReqs, searchReqs, view, observer, connected>>
    /\ UNCHANGED searched
    /\ UNCHANGED emptied
    /\ UNCHANGED source
    /\ UNCHANGED detailVars

\* data.items || []
SearchItems(body) == IF body.hasItems THEN body.items ELSE <<>>

\* the response of the i-th search is a success
SearchSuccess(i, body) ==
    /\ i \in 1..Len(searchReqs)
    /\ searchResults' = SearchItems(body)
    /\ SetFilteredUsers(SearchItems(body))
    /\ isSearching' = FALSE
    /\ searchReqs' = ResolveAt(searchReqs, i, TRUE)
    /\ UNCHANGED <<users, loading, hasMore, page, error, searchQuery,
                   isInitialized, pageReqs>>
    /\ UNCHANGED searched
    /\ UNCHANGED emptied
    /\ Defer(timer, TRUE, FALSE, FALSE)
    /\ UNCHANGED source
    /\ UNCHANGED detailVars

\* SearchFail showing the emptied search result set
SearchFailBlanking(i, f) ==
    /\ i \in 1..Len(searchReqs)
    /\ error' = SearchErrorMessage(f)
    /\ searchResults' = <<>>
    /\ filteredUsers' = <<>>
    /\ isSearching' = FALSE
    /\ searchReqs' = ResolveAt(searchReqs, i, TRUE)
    /\ UNCHANGED <<users, loading, hasMore, page, searchQuery, isInitialized,
                   pageReqs>>
    /\ UNCHANGED searched
    /\ UNCHANGED emptied
    /\ Defer(timer, TRUE, FALSE, FALSE)
    /\ UNCHANGED source
    /\ UNCHANGED detailVars

\* the response of the i-th search is a failure: catch, finally
SearchFail(i, f) ==
    /\ i \in 1..Len(searchReqs)
    /\ error' = SearchErrorMessage(f)
    /\ searchResults' = <<>>
    \* the test is on the argument of the call, which line 76 found non-empty
    /\ IF Trim(searchReqs[i].query) = <<>>
       THEN SetFilteredUsers(users)
       ELSE filteredUsers' = filteredUsers
    /\ isSearching' = FALSE
    /\ searchReqs' = ResolveAt(searchReqs, i, TRUE)
    /\ UNCHANGED <<users, loading, hasMore, page, searchQuery, isInitialized,
                   pageReqs>>
    /\ UNCHANGED searched
    /\ UNCHANGED emptied
    /\ Defer(timer, TRUE, FALSE, FALSE)
    /\ UNCHANGED source
    /\ UNCHANGED detailVars

\* ---------------------------------------------------------- specification
Next ==
    \/ \E i \in 1..MaxInFlight, f \in Failures : FetchUsersFail(i, f)
    \/ \E i \in 1..MaxInFlight : FetchUsersEmpty(i)
    \/ \E i \in 1..MaxInFlight, data \in PageData : FetchUsersData(i, data)
    \/ WatcherVisible
    \/ RetryFetch
    \/ \E q \in Queries : EditQuery(q)
    \/ ClearSearch
    \/ TimerFireEmpty
    \/ TimerFireSearch
    \/ \E i \in 1..MaxInFlight, body \in SearchBodies : SearchSuccess(i, body)
    \/ \E i \in 1..MaxInFlight, f \in Failures : SearchFail(i, f)
    \/ Render
    \/ Effects

Spec == Init /\ [][Next]_vars

\* the Listing View over a source with fixed page contents
FixedSpec == FixedInit /\ [][Next]_vars

\* the Listing View over a source with longer, overlapping pages, the search
\* input left alone: page loads, the watcher, the retry, the timeout of the
\* empty query, renders and effects
LongNext ==
    \/ \E i \in 1..MaxInFlight, f \in Failures : FetchUsersFail(i, f)
    \/ \E i \in 1..MaxInFlight : FetchUsersEmpty(i)
    \/ \E i \in 1..MaxInFlight, data \in LongPageData : FetchUsersData(i, data)
    \/ WatcherVisible
    \/ RetryFetch
    \/ TimerFireEmpty
    \/ Render
    \/ Effects

LongSpec == LongInit /\ [][LongNext]_vars

\* ------------------------------------------------- UserPage (Detail View)
listingVars == <<users, filteredUsers, loading, hasMore, page, error,
                 searchQuery, isSearching, searchResults, isInitialized,
                 observer, connected, pageReqs, searchReqs, timer, searched,
                 emptied, source, view, pending>>

\* a navigation to /users/h: UserPage runs up to the await of user(params.id)
Navigate(h) ==
    /\ phase \in {"idle", "rendered", "fault"}
    /\ params' = h
    /\ phase' = "user"
    /\ userData' = NoData
    /\ reposData' = NoData
    /\ rendered' = NoPage
    /\ UNCHANGED listingVars

\* the profile request resolves with a body, whatever its status (response.ok
\* is not read): UserPage goes on to the await of repos(params.id)
UserAnswers(body) ==
    /\ phase = "user"
    /\ userData' = body
    /\ phase' = "repos"
    /\ UNCHANGED <<params, reposData, rendered>>
    /\ UNCHANGED listingVars

\* fetch or response.json() rejects for the profile request
UserThrows ==
    /\ phase = "user"
    /\ phase' = "fault"
    /\ rendered' = Fault
    /\ UNCHANGED <<params, userData, reposData>>
    /\ UNCHANGED listingVars

\* the repository request resolves with a body, whatever its status, and the
\* page is computed from the two bodies
ReposAnswers(body) ==
    /\ phase = "repos"
    /\ reposData' = body
    /\ rendered' \in Renderings(userData, body)
    /\ phase' = IF rendered' = Fault THEN "fault" ELSE "rendered"
    /\ UNCHANGED <<params, userData>>
    /\ UNCHANGED listingVars

\* fetch or response.json() rejects for the repository request
ReposThrows ==
    /\ phase = "repos"
    /\ phase' = "fault"
    /\ rendered' = Fault
    /\ UNCHANGED <<params, userData, reposData>>
    /\ UNCHANGED listingVars

DetailNext ==
    \/ \E h \in Handles : Navigate(h)
    \/ \E body \in UserBodies : UserAnswers(body)
    \/ UserThrows
    \/ \E body \in ReposBodies : ReposAnswers(body)
    \/ ReposThrows

DetailSpec == Init /\ [][DetailNext]_vars

\* ------------------------------------------------------------ what is shown
\* the render is past the initial-load gate and shows the error banner, whose
\* button is the retry action
ErrorBannerShown == view.isInitialized /\ view.error # NoError

\* ------------------------------------------------------ steps of the model
\* the full loading screen returned by the render while isInitialized is false
InitialLoadShown == ~view.isInitialized

\* the "Loading more users..." blocks, rendered past the initial-load gate
LoadingMoreShown ==
    view.isInitialized /\ view.props.loading /\ view.props.query = <<>>

\* the "All Users Loaded" block
EndOfResultsShown ==
    /\ view.isInitialized
    /\ ~view.props.hasMore
    /\ view.users # <<>>
    /\ view.props.query = <<>>

\* the render of the state as it is has been committed and its effects have
\* run: the screen, the timeout and the watcher are those of the current state
Committed == ~pending.render /\ ~pending.effects

PageResolves(i) ==
    \/ \E f \in Failures : FetchUsersFail(i, f)
    \/ FetchUsersEmpty(i)
    \/ \E data \in PageData : FetchUsersData(i, data)

SearchResolves(i) ==
    \/ \E body \in SearchBodies : SearchSuccess(i, body)
    \/ \E f \in Failures : SearchFail(i, f)

\* a page request is issued in this step, and it is for page n
PageRequested(n) ==
    /\ Len(pageReqs') = Len(pageReqs) + 1
    /\ pageReqs'[Len(pageReqs')].pageNum = n

\* a search request is issued in this step, and it carries query q
SearchRequested(q) ==
    /\ Len(searchReqs') = Len(searchReqs) + 1
    /\ searchReqs'[Len(searchReqs')].query = q

\* ------------------------------------------------------------------ claims

\* C1: in every reachable state the accumulated listing holds no two entries
\* with the same identifier.
C1_NoDuplicateIds ==
    \A a, b \in 1..Len(users) : a # b => users[a] # users[b]

\* a later page has been merged into a listing of more than one entry
C1_Witness == isInitialized /\ page > 1 /\ Len(users) > 1

\* C2: the response of a search request that was issued before a request
\* that has already resolved (or before the query was cleared) changes
\* neither the search result set, nor the displayed list, nor the error.
C2_StaleSearchIgnored ==
    [][\A i \in 1..MaxInFlight :
          (/\ i <= Len(searchReqs)
           /\ searchReqs[i].superseded
           /\ SearchResolves(i))
          => UNCHANGED <<searchResults, filteredUsers, error>>]_vars

\* C3: the response of a page request that was issued before a page request
\* whose answer has already been merged changes neither the accumulated
\* listing, nor the current page, nor the displayed list.
C3_StalePageIgnored ==
    [][\A i \in 1..MaxInFlight :
          (/\ i <= Len(pageReqs)
           /\ pageReqs[i].superseded
           /\ PageResolves(i))
          => UNCHANGED <<users, page, filteredUsers>>]_vars

\* C4: once page n has answered with an empty sequence (hasMore is false), no
\* request for page n + 1, or for a later page, is issued.
C4_ExhaustionFinal ==
    [][\A n \in 1..MaxPage :
          (emptied > 0 /\ PageRequested(n)) => n <= emptied]_vars

\* C5: while the query is empty or whitespace, the debounce delay has passed
\* since it became so (after the clear action as after an edit) and the
\* render is committed, the displayed list is the accumulated listing.
C5_ClearedShowsListing ==
    (Trim(searchQuery) = <<>> /\ ~timer.pending /\ Committed)
    => filteredUsers = users

\* C6: a search request is issued only by the debounce timeout, carries the
\* query as it is then, which does not trim to nothing, and is the only
\* request issued since the query last changed.
C6_DebounceLaw ==
    [][\A q \in Queries :
          SearchRequested(q)
          => (/\ timer.pending
              /\ q = searchQuery
              /\ Trim(q) # <<>>
              /\ ~searched)]_vars

\* the entries of data, in order, whose identifier prev does not hold
RECURSIVE KeepNew(_, _)
KeepNew(prev, data) ==
    IF data = <<>> THEN <<>>
    ELSE (IF \E j \in 1..Len(prev) : prev[j] = Head(data)
          THEN <<>> ELSE <<Head(data)>>) \o KeepNew(prev, Tail(data))

\* C7: a non-empty answer to page 1 becomes the accumulated listing; a
\* non-empty answer to a later page leaves the listing in place and appends,
\* in the order of the answer, the entries whose identifier it does not hold
\* (page 1 = ids 1, 2 and page 2 = ids 2, 3 gives ids 1, 2, 3).
C7_PageMergeResult ==
    [][\A i \in 1..MaxInFlight, data \in LongPageData :
          FetchUsersData(i, data)
          => users' = IF pageReqs[i].pageNum = 1 THEN data
                      ELSE users \o KeepNew(users, data)]_vars

\* page 2 = ids 2, 3 was merged into page 1 = ids 1, 2, which it overlaps in
\* part: the listing is ids 1, 2, 3 in order
C7_Witness ==
    /\ source.fixed
    /\ source.pages = <<(<<1, 2>>), (<<2, 3>>)>>
    /\ page = 2
    /\ users = <<1, 2, 3>>

\* C8: a failed page load stores a non-empty error message and leaves the
\* accumulated listing, hasMore and the current page as they were.
C8_FailureKeepsPagination ==
    [][\A i \in 1..MaxInFlight, f \in Failures :
          FetchUsersFail(i, f)
          => (/\ error' # NoError
              /\ error' # ""
              /\ UNCHANGED <<users, hasMore, page>>)]_vars

\* the page-1 request of the mount has failed
C8_Witness ==
    /\ ~isInitialized
    /\ error # NoError
    /\ ~loading
    /\ pageReqs = <<>>
    /\ users = <<>>

\* C9: after a failed page load, once the render that follows it is
\* committed, the error banner, with its retry button, is on screen for as
\* long as the message is stored.
C9_FailureVisible ==
    (Committed /\ error \in {PageErrorMessage(f) : f \in Failures})
    => ErrorBannerShown

\* C10: the retry action clears the error and issues a request for page 1,
\* whatever the current page, and no other request.
C10_RetryFromPageOne ==
    [][RetryFetch
       => (/\ error' = NoError
           /\ PageRequested(1)
           /\ SubSeq(pageReqs', 1, Len(pageReqs)) = pageReqs
           /\ searchReqs' = searchReqs)]_vars

\* a retry from a later page: page 1 is awaited again, the error is cleared
C10_Witness ==
    /\ isInitialized
    /\ page > 1
    /\ loading
    /\ error = NoError
    /\ \E j \in 1..Len(pageReqs) : pageReqs[j].pageNum = 1

\* C11: a successful search response makes its items (none when the body has
\* no items) the search result set and the displayed list, and no search
\* operation (the edit of the query, the timeout, a response, the clear
\* action) changes the accumulated listing, the current page or hasMore.
C11_SearchKeepsPagination ==
    [][/\ \A i \in 1..MaxInFlight, body \in SearchBodies :
            SearchSuccess(i, body)
            => (/\ searchResults' = (IF body.hasItems THEN body.items ELSE <<>>)
                /\ filteredUsers' = searchResults')
       /\ (\/ \E q \in Queries : EditQuery(q)
           \/ ClearSearch
           \/ TimerFireEmpty
           \/ TimerFireSearch
           \/ \E i \in 1..MaxInFlight : SearchResolves(i))
          => UNCHANGED <<users, page, hasMore>>]_vars

\* C12: a failed search sets the error message and leaves the displayed list
\* as it was whenever the query is non-empty at that moment; the failure
\* changes the displayed list only when the query is empty by then, and then
\* only to the accumulated listing.
C12_SearchFailureKeepsDisplay ==
    [][\A i \in 1..MaxInFlight, f \in Failures :
          SearchFail(i, f)
          => (/\ error' = SearchErrorMessage(f)
              /\ error' # NoError
              /\ Trim(searchQuery) # <<>> => filteredUsers' = filteredUsers
              /\ filteredUsers' # filteredUsers
                 => (Trim(searchQuery') = <<>> /\ filteredUsers' = users'))]_vars

\* a search failed after an earlier one succeeded: the earlier results are
\* still displayed, under the error message
C12_Witness ==
    /\ error \in {SearchErrorMessage(f) : f \in Failures}
    /\ Trim(searchQuery) # <<>>
    /\ searchResults = <<>>
    /\ filteredUsers # <<>>
    /\ filteredUsers # users
    /\ searchReqs = <<>>

\* C13: both ways of clearing the query, the clear action and the edit of the
\* input to the empty string (which takes effect when its timeout runs), end
\* with isSearching false, no search results, no error and the accumulated
\* listing displayed.
C13_ClearingResets ==
    [][(\/ ClearSearch
        \/ (TimerFireEmpty /\ timer.edited /\ timer.query = <<>>))
       => (/\ searchQuery' = <<>>
           /\ isSearching' = FALSE
           /\ searchResults' = <<>>
           /\ error' = NoError
           /\ filteredUsers' = users')]_vars

\* C14: when the query becomes empty or whitespace-only, search mode is
\* cleared and the accumulated listing displayed in the same step as the
\* change of the query, and no search request is ever issued for an empty or
\* whitespace-only query.
C14_EmptyQueryImmediate ==
    [][/\ \A q \in Queries :
            (EditQuery(q) /\ Trim(q) = <<>>)
            => (/\ isSearching' = FALSE
                /\ searchResults' = <<>>
                /\ filteredUsers' = users')
       /\ \A j \in 1..Len(searchReqs') : Trim(searchReqs'[j].query) # <<>>]_vars

\* C15: at most one page request is in flight at any time, and the watcher
\* requests a page only when no page request (for page 1 or a later page) is
\* outstanding.
C15_OnePageRequest ==
    [][/\ WatcherVisible => pageReqs = <<>>
       /\ Len(pageReqs') <= 1]_vars

\* C16: the watcher requests a page only in states where the search query is
\* empty, and the page it requests is the current page plus one.
C16_WatcherIdleInSearch ==
    [][WatcherVisible => (searchQuery = <<>> /\ PageRequested(page + 1))]_vars

\* C17: the full loading screen is shown only while a page-1 request is
\* outstanding; once the page-1 request of the initial load has resolved,
\* with users, with an empty answer or with a failure, and the render that
\* follows is committed, it is not shown.
C17_InitialLoadOnlyWhileOutstanding ==
    (Committed /\ InitialLoadShown)
    => \E j \in 1..Len(pageReqs) : pageReqs[j].pageNum = 1

\* C18: in every committed render, while a request for a page after the
\* first is outstanding and the query is empty the "loading more" indicator
\* is shown, and it is not shown once no page request is outstanding.
C18_LoadingMoreWhileOutstanding ==
    Committed
    => /\ ((\E j \in 1..Len(pageReqs) : pageReqs[j].pageNum > 1)
           /\ searchQuery = <<>>)
          => LoadingMoreShown
       /\ pageReqs = <<>> => ~LoadingMoreShown

IsPrefix(s, t) == Len(s) <= Len(t) /\ SubSeq(t, 1, Len(s)) = s

\* C19 as stated: the accumulated listing starts empty and no operation ever
\* makes it shorter or removes an entry it contained.
C19_ListingOnlyGrows ==
    /\ users = <<>>
    /\ [][/\ Len(users') >= Len(users)
          /\ Range(users) \subseteq Range(users')]_vars

\* C19, amended: the accumulated listing starts empty; the answer with users
\* to a page-1 request (the initial load or a retry) replaces it by that
\* answer, and every other operation leaves it as it was or extends it at
\* the end.
C19_ListingGrowsBetweenReloads ==
    /\ users = <<>>
    /\ [][/\ \A i \in 1..Len(pageReqs), data \in PageData :
               (FetchUsersData(i, data) /\ pageReqs[i].pageNum = 1)
               => users' = data
          /\ (~\E i \in 1..Len(pageReqs), data \in PageData :
                  FetchUsersData(i, data) /\ pageReqs[i].pageNum = 1)
             => IsPrefix(users, users')]_vars

\* the answer to a retry of page 1 was stored after the watcher had asked for
\* page 2: the listing was replaced, and the older request is still awaited
C19_Witness ==
    /\ isInitialized
    /\ page = 1
    /\ users # <<>>
    /\ \E j \in 1..Len(pageReqs) :
          pageReqs[j].pageNum > 1 /\ pageReqs[j].superseded

\* C20: a successful search response whose items are absent or empty empties
\* the search result set and the displayed list, and does not set the error
\* state.
C20_NoItemsIsNoResults ==
    [][\A i \in 1..MaxInFlight, body \in SearchBodies :
          (SearchSuccess(i, body) /\ (~body.hasItems \/ body.items = <<>>))
          => (/\ searchResults' = <<>>
              /\ filteredUsers' = <<>>
              /\ error' = error)]_vars

\* C21: in the Detail View, when the profile request answers with a profile
\* and the repository request with a sequence, the page is rendered with the
\* profile; with no repository the repository section is the "no
\* repositories" block, and otherwise it has one entry per repository, in the
\* order returned.
C21_ReposRendered ==
    [][\A body \in ReposBodies :
          (ReposAnswers(body) /\ userData.kind = "profile"
           /\ body.kind = "array")
          => (/\ rendered'.kind = "page"
              /\ rendered'.login = userData.login
              /\ rendered'.name = (IF userData.name = JsNull
                                    THEN "No Name" ELSE userData.name)
              /\ IF body.items = <<>>
                 THEN rendered'.repos.state = "none"
                 ELSE /\ rendered'.repos.state = "list"
                      /\ Len(rendered'.repos.entries) = Len(body.items)
                      /\ \A j \in 1..Len(body.items) :
                            rendered'.repos.entries[j].key = body.items[j])]_vars

\* the page of a user without repositories
C21_Witness ==
    /\ phase = "rendered"
    /\ userData.kind = "profile"
    /\ reposData.kind = "array"
    /\ reposData.items = <<>>
    /\ rendered.kind = "page"
    /\ rendered.repos.state = "none"

\* C22: at most one watcher observes an element at any time, and it is the
\* one created last (observer.current): a watcher that is armed replaces the
\* one before it.
C22_OneWatcher ==
    /\ Len(connected) <= 1
    /\ connected # <<>>
       => (observer.observing /\ connected[1] = Watcher(observer))

\* the watcher was armed again after the current page changed, and it is the
\* only one connected
C22_Witness ==
    /\ Len(connected) = 1
    /\ connected[1].page > 1
    /\ page > 1

\* C23: while the query is non-empty, the response to a page request (of a
\* retry, or of a page asked for before the query was typed) leaves the
\* displayed list as it was.
C23_PageAnswerKeepsSearchDisplay ==
    [][\A i \in 1..MaxInFlight :
          (PageResolves(i) /\ searchQuery # <<>>)
          => filteredUsers' = filteredUsers]_vars

\* the de-duplicated concatenation of pages 1..p of the fixed source src
RECURSIVE PagesUpTo(_, _)
PagesUpTo(src, p) ==
    IF p = 0 THEN <<>>
    ELSE LET before == PagesUpTo(src, p - 1)
         IN before \o SelectSeq(SourcePage(src, p),
                                LAMBDA u : u \notin Range(before))

\* C24: over a source with fixed page contents, once the listing is loaded
\* it equals the de-duplicated concatenation of pages 1..page, in order: no
\* page up to the current one is missing.
C24_Contiguous ==
    (source.fixed /\ isInitialized) => users = PagesUpTo(source, page)

\* C25: over a source with fixed page contents, whenever the listing is shown
\* as exhausted ("All Users Loaded") and no page request is in flight, the
\* accumulated listing holds the entries of every non-empty page of the
\* source.
C25_ExhaustedIsComplete ==
    (source.fixed /\ Committed /\ EndOfResultsShown /\ pageReqs = <<>>)
    => \A n \in 1..Len(source.pages) :
          Range(source.pages[n]) \subseteq Range(users)

\* C26: between two consecutive changes of the query at most one search
\* request is issued, and the render that follows the response to a page
\* request, arriving after the search for the unchanged query was issued,
\* and its effects do not set the timeout that would issue another.
C26_SearchOnlyOnEdit ==
    [][/\ (\E q \in Queries : SearchRequested(q)) => ~searched
       /\ ((Render \/ Effects) /\ searched /\ ~timer.pending)
          => ~timer'.pending]_vars

\* C27: isSearching is true whenever a search request for the current
\* non-empty query is outstanding and no later operation has replaced what
\* it will answer, also after an earlier overlapping request has resolved.
C27_SearchingWhileOutstanding ==
    (\E j \in 1..Len(searchReqs) :
        /\ searchReqs[j].query = searchQuery
        /\ ~searchReqs[j].superseded)
    => isSearching

\* C28: whenever the query is non-empty, no search request is outstanding,
\* no timeout is pending and a search issued since the query last changed
\* has resolved, the search result set (whose length is the reported count)
\* equals the displayed list.
C28_CountMatchesDisplay ==
    (/\ Committed
     /\ searchQuery # <<>>
     /\ searched
     /\ searchReqs = <<>>
     /\ ~timer.pending)
    => searchResults = filteredUsers

\* C29: in every state where the query is empty or whitespace-only, the
\* accumulated listing is displayed, non-empty and not exhausted, and no page
\* load is in flight, a watcher is armed that requests the next page.
C29_ScrollAvailable ==
    (/\ Committed
     /\ isInitialized
     /\ Trim(searchQuery) = <<>>
     /\ filteredUsers = users
     /\ users # <<>>
     /\ hasMore
     /\ ~loading
     /\ pageReqs = <<>>)
    => (/\ connected # <<>>
        /\ \A k \in 1..Len(connected) :
              connected[k] = [hasMore |-> TRUE, page |-> page])

\* C30: in the Detail View, on the page of a profile, the "no repositories"
\* block is rendered only when the repository request answered with an empty
\* sequence; an answer that is not a sequence (the object of a non-success
\* response) is not rendered as "no repositories".
C30_NoneOnlyForEmptyList ==
    (/\ rendered.kind = "page"
     /\ userData.kind = "profile"
     /\ rendered.repos.state = "none")
    => (reposData.kind = "array" /\ reposData.items = <<>>)

====
